---- MODULE Spec2Model ----
(***************************************************************************)
(* Model of the parallel chunk-dispatch engine of clustering-lhco:        *)
(*   LHCO.py            clustering_mpi, run_procs, merge                  *)
(*   jetminer/core/clustering.py   clustering_LHCO, _save_scalars,        *)
(*                                 _save_images                           *)
(* The main process partitions the events into chunks, creates one        *)
(* multiprocessing.Process per chunk, polls them in run_procs and merges  *)
(* the partial files the workers left in the temporary directory.         *)
(*                                                                         *)
(* Conventions.  Python's None is the empty sequence <<>> and a present    *)
(* value v is <<v>>.  A feature row (or image) is represented by the       *)
(* global index of the event it was computed from.  A file name is a      *)
(* record [feature, kind, tail] standing for the string                   *)
(* "<feature>_<kind>" followed by the characters of tail, given as        *)
(* character codes so that sorted() can compare names as strings.         *)
(***************************************************************************)
EXTENDS Integers, Sequences, FiniteSets, TLC

\* ---------------------------------------------------------------- bounds
MaxEvents == 4
MaxChunk == 2
MaxJ == 2
MaxNJets == 3
MaxFound == 3
MaxPix == 2
MaxParticles == 2

\* ------------------------------------------------------ program constants
\* psutil.cpu_count(logical=False) of the machine the run is on
n_max == 2
\* exit code of a worker whose target raised an exception
ExitRaised == 1

VARIABLES
    n_events,         \* LHCO.py:228-231
    n_workers,        \* LHCO.py:224
    chunk_size,       \* argument chunk_size, rebound at LHCO.py:235
    scalars,          \* kwargs scalars of clustering_LHCO
    images,           \* kwargs images of clustering_LHCO
    data_truth,       \* <<>>: rows of length 3k; <<col>>: trailing truth column
    masterkey,        \* <<>>: kwargs["masterkey"] is None; <<key>>: file contents
    process_counter,  \* next value of multiprocessing.process._process_counter
    pc,               \* position of the main process
    n_chunks,         \* LHCO.py:236
    procs,            \* the list of mpi.Process objects with each child's state
    process_queue,    \* run_procs: deque of indices into procs
    finished,         \* run_procs: boolean array
    main_bar,         \* tqdm main_bar.n, the progress reported so far
    tmp_dir,          \* <<>>: does not exist; <<files>>: the set of its files
    signal_files,     \* merge: sorted signal paths
    background_files, \* merge: sorted background paths
    out_dir           \* set of merged outputs [feature, kind, rows]

\* One pass of the event loop of clustering_LHCO (clustering.py:172-186),
\* looked at on its own: the jets of one event, the feature row and the image
\* computed from them.
VARIABLES
    njets,            \* kwargs["njets"]
    inclusive_jets,   \* seq.inclusive_jets(ptmin=...), by decreasing pt
    img_def,          \* the image configuration [npix, norm, stitch_jets]
    epc,              \* position in the body of the event loop
    jets,             \* the padded jet list
    calls,            \* the feature functions evaluated, as <<name, slot>>
    feature_dict,     \* <<>> until computed, then <<the feature row>>
    arr,              \* image_from_jets: the results of pixelate
    img,              \* <<>> until computed, then <<result of image_from_jets>>
    kwargs,           \* the clustering radii [R, R2], in units of 0.1
    reclustered       \* the cluster_lru calls made, as [feature, slot, R]

\* cluster_event (clustering.py:27-47) on one row of the input table
VARIABLES
    event,            \* the row: (pT, eta, phi) per particle, zero padded
    pseudojets_input  \* <<>> until computed, then <<outcome of the call>>

cluster_vars == <<event, pseudojets_input>>

event_vars == <<njets, inclusive_jets, img_def, epc, jets, calls,
                feature_dict, arr, img, kwargs, reclustered, cluster_vars>>

vars == <<n_events, n_workers, chunk_size, scalars, images, data_truth,
          masterkey, process_counter, pc, n_chunks, procs, process_queue,
          finished, main_bar, tmp_dir, signal_files,
          background_files, out_dir, event_vars>>

inputs == <<n_events, n_workers, scalars, images, data_truth, masterkey>>

None == <<>>
Some(v) == <<v>>

\* ------------------------------------------------------------ sequences
\* np.sum / sum over a boolean array
CountTrue(s) == Cardinality({i \in DOMAIN s : s[i]})

\* Python slice s[a:b] of a list indexed from 0 (0 <= a <= b): silently
\* truncated at the end of the list
Slice(s, a, b) ==
    LET hi == IF b < Len(s) THEN b ELSE Len(s)
    IN IF a >= hi THEN <<>> ELSE SubSeq(s, a + 1, hi)

\* -------------------------------------------------------------- file names
RECURSIVE Digits(_)
Digits(n) == IF n < 10 THEN <<48 + n>>
             ELSE Digits(n \div 10) \o <<48 + (n % 10)>>

\* f"{pno:02d}": decimal digits, zero-padded to a width of at least two
Fmt02d(pno) == IF pno < 10 THEN <<48>> \o Digits(pno) ELSE Digits(pno)

\* ".h5"
DotH5 == <<46, 104, 53>>

\* folder_out.joinpath(f"{feature}_{kind}{pno:02d}.h5")
PartialName(feature, kind, pno) ==
    [feature |-> feature, kind |-> kind, tail |-> Fmt02d(pno) \o DotH5]

\* string comparison a < b on character codes
RECURSIVE StrLess(_, _)
StrLess(a, b) ==
    IF b = <<>> THEN FALSE
    ELSE IF a = <<>> THEN TRUE
    ELSE IF Head(a) # Head(b) THEN Head(a) < Head(b)
    ELSE StrLess(Tail(a), Tail(b))

\* the orders in which a directory listing can yield the files of S
RECURSIVE Listings(_)
Listings(S) ==
    IF S = {} THEN {<<>>}
    ELSE UNION {{<<f>> \o l : l \in Listings(S \ {f})} : f \in S}

\* path.glob(f"{feature}_{kind}*"): the directory entries whose name starts
\* with the stem; the file system yields them in an arbitrary order
Glob(dir, feature, kind) ==
    Listings({f \in dir : f.name.feature = feature /\ f.name.kind = kind})

\* insert file f into the name-sorted sequence s
RECURSIVE Insert(_, _)
Insert(f, s) ==
    IF s = <<>> THEN <<f>>
    ELSE IF StrLess(f.name.tail, Head(s).name.tail) THEN <<f>> \o s
    ELSE <<Head(s)>> \o Insert(f, Tail(s))

RECURSIVE SortFrom(_, _)
SortFrom(files, acc) ==
    IF files = <<>> THEN acc
    ELSE SortFrom(Tail(files), Insert(Head(files), acc))

\* mutant: the paths are used in the order the glob returned them
sorted_ListingOrder(files) == files

\* sorted(...) of the paths one glob returned (all share the stem, so the
\* order is the string order of the tails)
sorted(files) == SortFrom(files, <<>>)

\* to_hdf / h5py.File(name, 'w'): create the file, or replace its contents
WriteFile(dir, name, rows, keys) ==
    {f \in dir : f.name # name}
    \cup {[name |-> name, rows |-> rows, keys |-> keys]}

\* LHCO.py:146-154: pd.concat(df_list, axis=0, ignore_index=True) of the
\* tables read from files, or None when there is no file
RECURSIVE Concat(_)
Concat(files) ==
    IF files = <<>> THEN <<>> ELSE Head(files).rows \o Concat(Tail(files))

Merged(files) == IF files = <<>> THEN None ELSE Some(Concat(files))

\* ------------------------------------------------------------- the inputs
\* truth labels of the events, by global event index 0..MaxEvents-1
AllZero == [g \in 1..MaxEvents |-> 0]
AllOne == [g \in 1..MaxEvents |-> 1]
Mixed == [g \in 1..MaxEvents |-> IF g % 3 = 2 THEN 1 ELSE 0]
Alternating == [g \in 1..MaxEvents |-> g % 2]
OutOfRange == [g \in 1..MaxEvents |-> IF g = 2 THEN 2 ELSE g % 2]
ColumnLabels == {AllZero, Mixed}
KeyLabels == {AllZero, AllOne, Alternating, OutOfRange}

\* a partial file a previous run left in the temporary directory
StaleRow == 0 - 1
StaleDir == {[name |-> PartialName("scalars", "bkg", 1),
               rows |-> <<StaleRow>>, keys |-> 1]}

\* LHCO.py:223-224
NWorkers(j) == IF j = 0 THEN n_max ELSE j

\* LHCO.py:227-231; n_file is the number of rows of the input table
NEvents(n_file, max_events) ==
    IF max_events < n_file /\ max_events # 0 THEN max_events ELSE n_file

\* The truth sources a run can be given: none, a trailing truth column, a
\* masterkey file (covering every event, or only the first one), or both.
TruthConfigs(n) ==
    {[col |-> None, key |-> None]}
    \cup {[col |-> Some(SubSeq(l, 1, n)), key |-> None] : l \in ColumnLabels}
    \cup {[col |-> None, key |-> Some(SubSeq(l, 1, n))] : l \in KeyLabels}
    \cup {[col |-> None, key |-> Some(SubSeq(Alternating, 1, 1))],
          [col |-> Some(SubSeq(Mixed, 1, n)),
           key |-> Some(SubSeq(Alternating, 1, n))]}

\* no event is being looked at on its own
EventIdle ==
    /\ njets = 0
    /\ inclusive_jets = <<>>
    /\ img_def = [npix |-> 1, norm |-> FALSE, stitch_jets |-> FALSE]
    /\ epc = "idle"
    /\ jets = <<>>
    /\ calls = {}
    /\ feature_dict = None
    /\ arr = <<>>
    /\ img = None
    /\ kwargs = [R |-> 10, R2 |-> 2]
    /\ reclustered = {}
    /\ event = <<>>
    /\ pseudojets_input = None

\* The state when clustering_mpi is called.  The process counter is 1 in a
\* fresh interpreter and larger when processes were created before (an
\* earlier clustering_mpi call of the same interpreter, as in the test
\* suite); the temporary directory is absent or holds a previous run's file.
Init ==
    /\ \E n_file \in 0..MaxEvents, max_events \in 0..MaxEvents :
           n_events = NEvents(n_file, max_events)
    /\ \E j \in 0..MaxJ : n_workers = NWorkers(j)
    /\ chunk_size \in 0..MaxChunk
    /\ \E f \in {<<TRUE, FALSE>>, <<FALSE, TRUE>>, <<TRUE, TRUE>>} :
           scalars = f[1] /\ images = f[2]
    /\ \E t \in TruthConfigs(n_events) :
           data_truth = t.col /\ masterkey = t.key
    /\ process_counter \in {1, 99}
    /\ tmp_dir \in {None, Some(StaleDir)}
    /\ pc = "start"
    /\ n_chunks = 0
    /\ procs = <<>>
    /\ process_queue = <<>>
    /\ finished = <<>>
    /\ main_bar = 0
    /\ signal_files = <<>>
    /\ background_files = <<>>
    /\ out_dir = {}
    /\ EventIdle

\* --------------------------------------------------------- clustering_mpi
\* mutant: the identity of a process is the index of its progress bar
NewProcess_BarIndex(i, cs, counter) ==
    [start |-> i * cs,
     stop |-> (i + 1) * cs,
     pno |-> counter + (i % n_workers),
     bars |-> Some(n_workers),
     status |-> "queued",
     exitcode |-> None,
     wpc |-> "read",
     truth_bit |-> None,
     k |-> 0,
     datachunk |-> <<>>,
     imagechunk |-> <<>>]

\* mpi.Process(target=clustering_LHCO, args=(path, i*chunk_size,
\* (i+1)*chunk_size, tmp_dir), ...): the i-th process created (i from 0).
\* Process.__init__ takes the next value of the parent's process counter as
\* the identity the child later reads as pno.
NewProcess(i, cs, counter) ==
    [start |-> i * cs,
     stop |-> (i + 1) * cs,
     pno |-> counter + i,
     bars |-> Some(n_workers),
     status |-> "queued",
     exitcode |-> None,
     wpc |-> "read",
     truth_bit |-> None,
     k |-> 0,
     datachunk |-> <<>>,
     imagechunk |-> <<>>]

\* mutant: a chunk holds at least one event
ChunkSize_AtLeastOne(cs, n, w) ==
    IF cs = 0 THEN (IF n \div w = 0 THEN 1 ELSE n \div w) ELSE cs

\* LHCO.py:234-235
ChunkSize(cs, n, w) == IF cs = 0 THEN n \div w ELSE cs

\* mutant: the trailing partial chunk gets a task of its own
NChunks_Ceil(n, cs) == (n + cs - 1) \div cs

\* LHCO.py:236
NChunks(n, cs) == n \div cs

\* LHCO.py:233-236 when the chunk size is 0: n_events // chunk_size raises
\* ZeroDivisionError
SetupZeroDivision ==
    /\ pc = "start"
    /\ ChunkSize(chunk_size, n_events, n_workers) = 0
    /\ chunk_size' = ChunkSize(chunk_size, n_events, n_workers)
    /\ pc' = "error"
    /\ UNCHANGED event_vars
    /\ UNCHANGED <<inputs, process_counter, n_chunks, procs, process_queue,
                   finished, main_bar, tmp_dir, signal_files,
                   background_files, out_dir>>

\* LHCO.py:233-260: chunk size, number of chunks, fresh temporary directory,
\* one process per chunk
Setup ==
    /\ pc = "start"
    /\ ChunkSize(chunk_size, n_events, n_workers) # 0
    /\ chunk_size' = ChunkSize(chunk_size, n_events, n_workers)
    /\ n_chunks' = NChunks(n_events, chunk_size')
    /\ tmp_dir' = Some({})
    /\ procs' = [i \in 1..n_chunks' |->
                    NewProcess(i - 1, chunk_size', process_counter)]
    /\ process_counter' = process_counter + n_chunks'
    /\ pc' = "run_procs"
    /\ UNCHANGED event_vars
    /\ UNCHANGED <<inputs, process_queue, finished, main_bar,
                   signal_files, background_files, out_dir>>

\* ---------------------------------------------------------------- run_procs
is_alive(p) == p.status = "running"

\* mutant: the last process created is at the head of the queue
RunProcsInit_Lifo ==
    /\ pc = "run_procs"
    /\ process_queue' = [i \in 1..Len(procs) |-> Len(procs) + 1 - i]
    /\ finished' = [i \in 1..n_workers |-> FALSE]
    /\ pc' = "while"
    /\ UNCHANGED event_vars
    /\ UNCHANGED <<inputs, chunk_size, process_counter, n_chunks, procs,
                   main_bar, tmp_dir, signal_files, background_files,
                   out_dir>>

\* LHCO.py:171-172
RunProcsInit ==
    /\ pc = "run_procs"
    /\ process_queue' = [i \in 1..Len(procs) |-> i]
    /\ finished' = [i \in 1..n_workers |-> FALSE]
    /\ pc' = "while"
    /\ UNCHANGED event_vars
    /\ UNCHANGED <<inputs, chunk_size, process_counter, n_chunks, procs,
                   main_bar, tmp_dir, signal_files, background_files,
                   out_dir>>

\* mutant: the loop stops one task early
LoopCond_OffByOne(fin, ps) == CountTrue(fin) + 1 < Len(ps)

\* LHCO.py:173, the loop condition
LoopCond(fin, ps) == CountTrue(fin) < Len(ps)

\* LHCO.py:173: the loop condition fails and run_procs returns
RunProcsReturn ==
    /\ pc = "while"
    /\ ~LoopCond(finished, procs)
    /\ pc' = "merge"
    /\ UNCHANGED event_vars
    /\ UNCHANGED <<inputs, chunk_size, process_counter, n_chunks, procs,
                   process_queue, finished, main_bar, tmp_dir,
                   signal_files, background_files, out_dir>>

\* LHCO.py:175
Working(ps) == Cardinality({i \in DOMAIN ps : is_alive(ps[i])})

\* mutant: the pool counts as busy only above n_workers
Busy_OffByOne(w, n) == w > n

\* LHCO.py:178, all cores busy
Busy(w, n) == w >= n

\* LHCO.py:173-179: all cores are busy, sleep and poll again
PollSleep ==
    /\ pc = "while"
    /\ LoopCond(finished, procs)
    /\ Busy(Working(procs), n_workers)
    /\ pc' = "while"
    /\ UNCHANGED event_vars
    /\ UNCHANGED <<inputs, chunk_size, process_counter, n_chunks, procs,
                   process_queue, finished, main_bar, tmp_dir,
                   signal_files, background_files, out_dir>>

\* LHCO.py:173-180: a core is free, go on to read the exit codes.  The
\* workers run on between the is_alive poll and the exitcode poll.
PollAlive ==
    /\ pc = "while"
    /\ LoopCond(finished, procs)
    /\ ~Busy(Working(procs), n_workers)
    /\ pc' = "else"
    /\ UNCHANGED event_vars
    /\ UNCHANGED <<inputs, chunk_size, process_counter, n_chunks, procs,
                   process_queue, finished, main_bar, tmp_dir,
                   signal_files, background_files, out_dir>>

\* mutant: only a zero exit code counts as exited
Exited_ZeroOnly(ps) == [i \in DOMAIN ps |-> ps[i].exitcode = Some(0)]

\* LHCO.py:181-182
Exited(ps) == [i \in DOMAIN ps |-> ps[i].exitcode # None]

\* mutant: the number of exited tasks is reported, not its increase
Done_Total(exited, fin) == CountTrue(exited)

\* LHCO.py:183
Done(exited, fin) == CountTrue(exited) - CountTrue(fin)

\* Process.start(): fork the child, which begins clustering_LHCO
Start(p) == [p EXCEPT !.status = "running"]

\* mutant: the process at the head of the queue is started but stays queued
PollExited_NoPop ==
    /\ pc = "else"
    /\ main_bar' = main_bar + Done(Exited(procs), finished)
    /\ finished' = Exited(procs)
    /\ IF Len(process_queue) > 0
       THEN /\ procs' = [procs EXCEPT ![Head(process_queue)] = Start(@)]
            /\ process_queue' = process_queue
       ELSE UNCHANGED <<procs, process_queue>>
    /\ pc' = "while"
    /\ UNCHANGED event_vars
    /\ UNCHANGED <<inputs, chunk_size, process_counter, n_chunks, tmp_dir,
                   signal_files, background_files, out_dir>>

\* LHCO.py:181-188: report the newly exited tasks and start at most one
PollExited ==
    /\ pc = "else"
    /\ main_bar' = main_bar + Done(Exited(procs), finished)
    /\ finished' = Exited(procs)
    /\ IF Len(process_queue) > 0
       THEN /\ procs' = [procs EXCEPT ![Head(process_queue)] = Start(@)]
            /\ process_queue' = Tail(process_queue)
       ELSE UNCHANGED <<procs, process_queue>>
    /\ pc' = "while"
    /\ UNCHANGED event_vars
    /\ UNCHANGED <<inputs, chunk_size, process_counter, n_chunks, tmp_dir,
                   signal_files, background_files, out_dir>>

\* LHCO.py:287 and 140: merge(tmp_dir, "scalars") lists and sorts the
\* signal files
MergeGlobSig ==
    /\ pc = "merge"
    /\ \E listing \in Glob(tmp_dir[1], "scalars", "sig") :
           signal_files' = sorted(listing)
    /\ pc' = "merge_bkg"
    /\ UNCHANGED event_vars
    /\ UNCHANGED <<inputs, chunk_size, process_counter, n_chunks, procs,
                   process_queue, finished, main_bar, tmp_dir,
                   background_files, out_dir>>

\* LHCO.py:141: merge lists and sorts the background files
MergeGlobBkg ==
    /\ pc = "merge_bkg"
    /\ \E listing \in Glob(tmp_dir[1], "scalars", "bkg") :
           background_files' = sorted(listing)
    /\ pc' = "merge_read"
    /\ UNCHANGED event_vars
    /\ UNCHANGED <<inputs, chunk_size, process_counter, n_chunks, procs,
                   process_queue, finished, main_bar, tmp_dir,
                   signal_files, out_dir>>

\* <out_prefix>_<feature>_<kind>.h5 in the output directory
Output(feature, kind, df) ==
    IF df = None THEN {}
    ELSE {[feature |-> feature, kind |-> kind, rows |-> df[1]]}

\* LHCO.py:143-156 and 289-296: read and concatenate the files of each kind
\* and write the tables that are not None to the output directory
MergeWrite ==
    /\ pc = "merge_read"
    /\ out_dir' = out_dir
                  \cup Output("scalars", "bkg", Merged(background_files))
                  \cup Output("scalars", "sig", Merged(signal_files))
    /\ pc' = "done"
    /\ UNCHANGED event_vars
    /\ UNCHANGED <<inputs, chunk_size, process_counter, n_chunks, procs,
                   process_queue, finished, main_bar, tmp_dir,
                   signal_files, background_files>>

\* ------------------------------------------------- clustering_LHCO (worker)
\* clustering.py:155-165: the truth bits of the chunk, or the ValueError of
\* a masterkey given for data with a truth column
\* (mutant: the row length is tested for the wrong remainder)
RaisesConfigError_WrongColumn == masterkey # None /\ data_truth = None
RaisesConfigError == masterkey # None /\ data_truth # None

\* mutant: the masterkey is indexed from the start of the chunk
TruthBit_ChunkLocal(start, stop) ==
    IF masterkey # None THEN Some(Slice(masterkey[1], 0, stop - start))
    ELSE IF data_truth # None THEN Some(Slice(data_truth[1], start, stop))
    ELSE None

\* clustering.py:155-165: the truth bits of the chunk
TruthBit(start, stop) ==
    IF masterkey # None THEN Some(Slice(masterkey[1], start, stop))
    ELSE IF data_truth # None THEN Some(Slice(data_truth[1], start, stop))
    ELSE None

\* truth_bit == 1
MaskSig(truth_bit) == [i \in DOMAIN truth_bit |-> truth_bit[i] = 1]

\* mutant: the background rows are selected by the signal mask
Not_Same(mask) == mask

\* ~mask_sig
Not(mask) == [i \in DOMAIN mask |-> ~mask[i]]

\* chunk[mask] for a boolean mask of the length of chunk
RECURSIVE BoolIndex(_, _)
BoolIndex(chunk, mask) ==
    IF chunk = <<>> THEN <<>>
    ELSE (IF Head(mask) THEN <<Head(chunk)>> ELSE <<>>)
         \o BoolIndex(Tail(chunk), Tail(mask))

\* pandas and numpy raise on a boolean index whose length is not the length
\* of the indexed axis
MaskMismatch(chunk, truth_bit) == Len(truth_bit) # Len(chunk)

\* the step that follows the event loop, the scalar files, the image files
AfterImages == "return"
AfterScalars(truth_bit) ==
    IF images
    THEN (IF truth_bit # None THEN "images_sig" ELSE "images_bkg")
    ELSE AfterImages
AfterLoop(truth_bit) ==
    IF scalars THEN "scalars_bkg" ELSE AfterScalars(truth_bit)

\* the worker moves on to step next; returning 0 from the target ends the
\* process with exit code 0
\* the process ends with the given exit code; its memory is gone
Exit(p, code) ==
    [p EXCEPT !.status = "exited", !.exitcode = Some(code), !.wpc = "gone",
              !.truth_bit = None, !.k = 0, !.datachunk = <<>>,
              !.imagechunk = <<>>]

Advance(p, next) ==
    IF next = "return" THEN Exit(p, 0) ELSE [p EXCEPT !.wpc = next]

\* an exception that leaves the target ends the process with exit code 1
Raise(p) == Exit(p, ExitRaised)

Running(i, step) ==
    /\ i \in DOMAIN procs
    /\ procs[i].status = "running"
    /\ procs[i].wpc = step

\* clustering.py:150-168: read the slice and resolve the truth source
WorkerRead(i) ==
    /\ Running(i, "read")
    /\ LET p == procs[i]
       IN procs' = [procs EXCEPT ![i] =
             IF RaisesConfigError THEN Raise(p)
             ELSE [p EXCEPT !.truth_bit = TruthBit(p.start, p.stop),
                            !.wpc = "loop"]]
    /\ UNCHANGED event_vars
    /\ UNCHANGED <<inputs, chunk_size, process_counter, pc, n_chunks,
                   process_queue, finished, main_bar, tmp_dir,
                   signal_files, background_files, out_dir>>

\* clustering.py:151: `if bars:` for None or a list of bars
Truthy(bars) == bars # None /\ bars[1] > 0

\* clustering.py:172-186: one iteration of the event loop; the loop ends
\* with the last row of the slice.  The name bar is bound by lines 151-152
\* only when bars is truthy; otherwise bar.desc on line 185 raises
\* UnboundLocalError at the end of the first iteration.
WorkerCluster(i) ==
    /\ Running(i, "loop")
    /\ LET p == procs[i]
           g == p.start + p.k
           q == [p EXCEPT !.k = @ + 1,
                          !.datachunk =
                              IF scalars THEN Append(@, g) ELSE @,
                          !.imagechunk =
                              IF images THEN Append(@, g) ELSE @]
       IN procs' = [procs EXCEPT ![i] =
             IF ~Truthy(p.bars) THEN Raise(p)
             ELSE IF q.k = q.stop - q.start
             THEN Advance(q, AfterLoop(q.truth_bit))
             ELSE q]
    /\ UNCHANGED event_vars
    /\ UNCHANGED <<inputs, chunk_size, process_counter, pc, n_chunks,
                   process_queue, finished, main_bar, tmp_dir,
                   signal_files, background_files, out_dir>>

\* clustering.py:197-201 and 205-207: the background rows, or every row
\* when there is no truth bit
WorkerScalarsBkg(i) ==
    /\ Running(i, "scalars_bkg")
    /\ LET p == procs[i]
           name == PartialName("scalars", "bkg", p.pno)
       IN IF p.truth_bit = None
          THEN /\ tmp_dir' = Some(WriteFile(tmp_dir[1], name, p.datachunk, 1))
               /\ procs' = [procs EXCEPT ![i] =
                               Advance(@, AfterScalars(p.truth_bit))]
          ELSE IF MaskMismatch(p.datachunk, p.truth_bit[1])
          THEN /\ procs' = [procs EXCEPT ![i] = Raise(@)]
               /\ UNCHANGED tmp_dir
          ELSE /\ tmp_dir' = Some(WriteFile(tmp_dir[1], name,
                       BoolIndex(p.datachunk, Not(MaskSig(p.truth_bit[1]))),
                       1))
               /\ procs' = [procs EXCEPT ![i] = Advance(@, "scalars_sig")]
    /\ UNCHANGED event_vars
    /\ UNCHANGED <<inputs, chunk_size, process_counter, pc, n_chunks,
                   process_queue, finished, main_bar, signal_files,
                   background_files, out_dir>>

\* clustering.py:202-204: the signal rows
WorkerScalarsSig(i) ==
    /\ Running(i, "scalars_sig")
    /\ LET p == procs[i]
           name == PartialName("scalars", "sig", p.pno)
       IN /\ tmp_dir' = Some(WriteFile(tmp_dir[1], name,
                  BoolIndex(p.datachunk, MaskSig(p.truth_bit[1])), 1))
          /\ procs' = [procs EXCEPT ![i] =
                          Advance(@, AfterScalars(p.truth_bit))]
    /\ UNCHANGED event_vars
    /\ UNCHANGED <<inputs, chunk_size, process_counter, pc, n_chunks,
                   process_queue, finished, main_bar, signal_files,
                   background_files, out_dir>>

\* clustering.py:211-216: the signal images; h5py creates the file before
\* the boolean index is evaluated
WorkerImagesSig(i) ==
    /\ Running(i, "images_sig")
    /\ LET p == procs[i]
           name == PartialName("images", "sig", p.pno)
       IN IF MaskMismatch(p.imagechunk, p.truth_bit[1])
          THEN /\ tmp_dir' = Some(WriteFile(tmp_dir[1], name, <<>>, 0))
               /\ procs' = [procs EXCEPT ![i] = Raise(@)]
          ELSE /\ tmp_dir' = Some(WriteFile(tmp_dir[1], name,
                       BoolIndex(p.imagechunk, MaskSig(p.truth_bit[1])), 1))
               /\ procs' = [procs EXCEPT ![i] = Advance(@, "images_bkg")]
    /\ UNCHANGED event_vars
    /\ UNCHANGED <<inputs, chunk_size, process_counter, pc, n_chunks,
                   process_queue, finished, main_bar, signal_files,
                   background_files, out_dir>>

\* clustering.py:217-222: the background images; without a truth bit the
\* name mask_sig is unbound and the read of it raises UnboundLocalError
\* after h5py created the file
WorkerImagesBkg(i) ==
    /\ Running(i, "images_bkg")
    /\ LET p == procs[i]
           name == PartialName("images", "bkg", p.pno)
       IN IF p.truth_bit = None
          THEN /\ tmp_dir' = Some(WriteFile(tmp_dir[1], name, <<>>, 0))
               /\ procs' = [procs EXCEPT ![i] = Raise(@)]
          ELSE /\ tmp_dir' = Some(WriteFile(tmp_dir[1], name,
                       BoolIndex(p.imagechunk, Not(MaskSig(p.truth_bit[1]))),
                       1))
               /\ procs' = [procs EXCEPT ![i] = Advance(@, AfterImages)]
    /\ UNCHANGED event_vars
    /\ UNCHANGED <<inputs, chunk_size, process_counter, pc, n_chunks,
                   process_queue, finished, main_bar, signal_files,
                   background_files, out_dir>>

MaxProcs == MaxEvents

Worker(i) ==
    \/ WorkerRead(i)
    \/ WorkerCluster(i)
    \/ WorkerScalarsBkg(i)
    \/ WorkerScalarsSig(i)
    \/ WorkerImagesSig(i)
    \/ WorkerImagesBkg(i)

Next ==
    \/ SetupZeroDivision
    \/ Setup
    \/ RunProcsInit
    \/ RunProcsReturn
    \/ PollSleep
    \/ PollAlive
    \/ PollExited
    \/ MergeGlobSig
    \/ MergeGlobBkg
    \/ MergeWrite
    \/ \E i \in 1..MaxProcs : Worker(i)

Spec == Init /\ [][Next]_vars

\* ------------------------------------------- clustering_LHCO on its own
\* One process was created with clustering_LHCO as its target for the slice
\* [0, n_events) and started, without the dispatch engine: the argument bars
\* is left at its default None, or is an empty list, or a list of one bar.
\* The output directory exists and is empty.
DirectInit ==
    /\ n_events \in 1..MaxChunk
    /\ n_workers = 1
    /\ chunk_size = n_events
    /\ \E f \in {<<TRUE, FALSE>>, <<FALSE, TRUE>>, <<TRUE, TRUE>>} :
           scalars = f[1] /\ images = f[2]
    /\ \E t \in TruthConfigs(n_events) :
           data_truth = t.col /\ masterkey = t.key
    /\ process_counter = 2
    /\ pc = "direct"
    /\ n_chunks = 1
    /\ \E bars \in {None, Some(0), Some(1)} :
           procs = <<[Start(NewProcess(0, n_events, 1)) EXCEPT !.bars = bars]>>
    /\ process_queue = <<>>
    /\ finished = <<>>
    /\ main_bar = 0
    /\ tmp_dir = Some({})
    /\ signal_files = <<>>
    /\ background_files = <<>>
    /\ out_dir = {}
    /\ EventIdle

DirectNext == \E i \in 1..MaxProcs : Worker(i)

DirectSpec == DirectInit /\ [][DirectNext]_vars


\* -------------------------------------------------------------- fairness
\* the main process keeps running
MainStep ==
    \/ SetupZeroDivision
    \/ Setup
    \/ RunProcsInit
    \/ RunProcsReturn
    \/ PollSleep
    \/ PollAlive
    \/ PollExited
    \/ MergeGlobSig
    \/ MergeGlobBkg
    \/ MergeWrite

\* the runs that produce scalars and images from data without a truth
\* source, with a truth column, or with a masterkey that is too short
FairInit ==
    /\ Init
    /\ scalars /\ images
    /\ process_counter = 1
    /\ tmp_dir = None
    /\ \/ data_truth = None /\ masterkey = None
       \/ data_truth = Some(SubSeq(Mixed, 1, n_events))
       \/ masterkey = Some(SubSeq(Alternating, 1, 1))

\* The main process is scheduled again and again and every started worker
\* keeps taking steps, so that it exits, whatever its exit code.
FairSpec ==
    /\ FairInit
    /\ [][Next]_vars
    /\ WF_vars(MainStep)
    /\ \A i \in 1..MaxProcs : WF_vars(Worker(i))

\* ------------------------------------------------------------ properties
Created == pc \notin {"start", "error"}
Returned == pc \in {"merge", "merge_bkg", "merge_read", "done"}
ChunkRange(p) == p.start .. (p.stop - 1)
AllExited == \A i \in DOMAIN procs : procs[i].status = "exited"
AllSucceeded == \A i \in DOMAIN procs : procs[i].exitcode = Some(0)

\* C1: for a chunk size C >= 1 clustering_mpi creates n_events // C tasks,
\* task i covers [i*C, (i+1)*C), the ranges are disjoint, sorted by start and
\* cover exactly [0, (n_events // C) * C): fewer than C trailing events are
\* dropped and no event is in two chunks.
C1_ChunkPartition ==
    Created =>
        LET C == chunk_size
            covered == (n_events \div C) * C
        IN /\ C >= 1
           /\ Len(procs) = n_events \div C
           /\ \A i \in DOMAIN procs :
                  /\ procs[i].start = (i - 1) * C
                  /\ procs[i].stop = i * C
           /\ \A i, k \in DOMAIN procs :
                  i < k => /\ procs[i].start < procs[k].start
                           /\ ChunkRange(procs[i]) \cap ChunkRange(procs[k])
                                  = {}
           /\ UNION {ChunkRange(procs[i]) : i \in DOMAIN procs}
                  = 0 .. (covered - 1)
           /\ n_events - covered >= 0
           /\ n_events - covered < C

\* C1 witness: several chunks of several events each were created
C1_Witness ==
    /\ pc = "run_procs"
    /\ Len(procs) >= 2
    /\ chunk_size >= 2

StartedBy(i) ==
    /\ i \in DOMAIN procs
    /\ i \in DOMAIN procs'
    /\ procs[i].status = "queued"
    /\ procs'[i].status # "queued"

\* C2: at most n_workers tasks are started and not yet exited, a step of the
\* poll loop starts at most one task, and it starts one only when fewer than
\* n_workers tasks are live and the queue is not empty.
C2_BoundedPool ==
    /\ [](Cardinality({i \in DOMAIN procs : procs[i].status = "running"})
             <= n_workers)
    /\ [][/\ Cardinality({i \in 1..MaxProcs : StartedBy(i)}) <= 1
          /\ (\E i \in 1..MaxProcs : StartedBy(i)) =>
                 /\ pc = "else"
                 /\ Len(process_queue) > 0
                 /\ StartedBy(Head(process_queue))
                 /\ Cardinality({i \in DOMAIN procs :
                                    procs[i].status = "running"})
                        < n_workers]_vars

\* C2 witness: the pool is full while tasks are still queued
C2_Witness ==
    /\ n_workers = 2
    /\ Cardinality({i \in DOMAIN procs : procs[i].status = "running"}) = 2
    /\ Len(process_queue) > 0

\* C4: the merge happens only after every chunk task has exited; as long as
\* a task is queued or running no merge step is taken.
C4_MergeAfterAllExited == Returned => AllExited

\* C4 witness: the merge is reached after several tasks ran
C4_Witness ==
    /\ pc = "merge"
    /\ Len(procs) >= 3
    /\ tmp_dir[1] # {}


\* C3: if every started task eventually exits, whatever its exit code,
\* run_procs starts every queued task and returns, for any number of tasks.
C3_RunProcsReturns ==
    (pc = "run_procs") ~>
        (/\ pc = "merge"
         /\ process_queue = <<>>
         /\ \A i \in DOMAIN procs : procs[i].status = "exited")

\* C3 witness: run_procs returned from a run with more tasks than workers in
\* which a task exited with a non-zero exit code
C3_Witness ==
    /\ pc = "merge"
    /\ Len(procs) > n_workers
    /\ \E i \in DOMAIN procs : procs[i].exitcode = Some(ExitRaised)
    /\ \E i \in DOMAIN procs : procs[i].exitcode = Some(0)


\* ----------------------------------------- the run as a function of its input
\* the truth bit of the event with global index g, None when the run has no
\* truth source or the masterkey has no entry g
Label(g) ==
    IF masterkey # None
    THEN (IF g + 1 <= Len(masterkey[1]) THEN Some(masterkey[1][g + 1])
          ELSE None)
    ELSE IF data_truth # None THEN Some(data_truth[1][g + 1])
    ELSE None

HasTruth == masterkey # None \/ data_truth # None

TruthIn01 ==
    /\ masterkey # None =>
           \A x \in DOMAIN masterkey[1] : masterkey[1][x] \in {0, 1}
    /\ data_truth # None =>
           \A x \in DOMAIN data_truth[1] : data_truth[1][x] \in {0, 1}

\* the rows of a merged table, none when the table was not written
RowsOf(kind) ==
    IF \E o \in out_dir : o.feature = "scalars" /\ o.kind = kind
    THEN (CHOOSE o \in out_dir :
              o.feature = "scalars" /\ o.kind = kind).rows
    ELSE <<>>

Occurrences(rows, g) == Cardinality({x \in DOMAIN rows : rows[x] = g})

\* the events of chunk i, in order
ChunkEvents(i) ==
    [x \in 1..(procs[i].stop - procs[i].start) |-> procs[i].start + x - 1]

\* worker i leaves scalar files: scalars are requested, the truth source is
\* not given twice and has a bit for every event of the chunk
LeavesScalars(i) ==
    /\ scalars
    /\ ~(masterkey # None /\ data_truth # None)
    /\ HasTruth => \A g \in ChunkRange(procs[i]) : Label(g) # None

LeavesFile(i, kind) == LeavesScalars(i) /\ (kind = "bkg" \/ HasTruth)

\* the rows worker i leaves in its file of the kind
RowsLeft(i, kind) ==
    SelectSeq(ChunkEvents(i),
              LAMBDA g : (kind = "sig") <=> (Label(g) = Some(1)))

NameTail(i) == Fmt02d(procs[i].pno) \o DotH5

\* the workers that leave a file of the kind, in the order of the file names
ByName(kind) ==
    LET idx == {i \in DOMAIN procs : LeavesFile(i, kind)}
        rank(i) == Cardinality({k \in idx : StrLess(NameTail(k), NameTail(i))})
    IN [r \in 1..Cardinality(idx) |-> CHOOSE i \in idx : rank(i) = r - 1]

RECURSIVE RowsInOrder(_, _)
RowsInOrder(order, kind) ==
    IF order = <<>> THEN <<>>
    ELSE RowsLeft(Head(order), kind) \o RowsInOrder(Tail(order), kind)

\* the merged outputs as a function of the input alone
ExpectedOutputs ==
    UNION {IF ByName(kind) = <<>> THEN {}
           ELSE {[feature |-> "scalars", kind |-> kind,
                  rows |-> RowsInOrder(ByName(kind), kind)]} :
           kind \in {"bkg", "sig"}}

\* C5: for a fixed input, worker count and chunk size the merged background
\* and signal tables are the same, rows and order, for every interleaving of
\* worker starts, worker steps and completions and every order in which the
\* directory lists the partial files: they are a function of the input.
C5_MergeDeterministic == pc = "done" => out_dir = ExpectedOutputs

\* C5 witness: two workers ran side by side over more chunks than workers
\* and both merged tables have rows
C5_Witness ==
    /\ pc = "done"
    /\ n_workers = 2
    /\ Len(procs) >= 3
    /\ Len(RowsOf("bkg")) >= 2
    /\ Len(RowsOf("sig")) >= 1

RECURSIVE Increasing(_)
Increasing(rows) ==
    \/ Len(rows) < 2
    \/ rows[1] < rows[2] /\ Increasing(Tail(rows))

\* C6 (as claimed): the sorted file names are in increasing worker-index
\* order for any worker index values, so the rows of each merged table
\* appear in increasing chunk order.
C6_NameOrderIsIndexOrder ==
    pc = "done" => Increasing(RowsOf("bkg")) /\ Increasing(RowsOf("sig"))

C8_ImagesMerged ==
    (pc = "done" /\ images /\ Len(procs) >= 1 /\ AllSucceeded) =>
        /\ \E o \in out_dir : o.feature = "images" /\ o.kind = "bkg"
        /\ \E o \in out_dir : o.feature = "images" /\ o.kind = "sig"

\* C9 (as claimed): with chunk_size 0 and n_events >= n_workers >= 1 the
\* chunk size becomes n_events // n_workers and as many tasks as workers are
\* created.
C9_JobsEqualWorkers ==
    [][(pc = "start" /\ chunk_size = 0 /\ n_events >= n_workers
            /\ pc' = "run_procs") =>
           (/\ chunk_size' = n_events \div n_workers
            /\ Len(procs') = n_workers)]_vars

\* C10: a worker given a masterkey for data that embeds a truth bit raises
\* before it clusters any event and writes no partial file.
C10_ConfigErrorFirst ==
    (masterkey # None /\ data_truth # None) =>
        /\ \A i \in DOMAIN procs :
               /\ procs[i].wpc \in {"read", "gone"}
               /\ procs[i].k = 0
               /\ procs[i].datachunk = <<>>
               /\ procs[i].imagechunk = <<>>
               /\ procs[i].status = "exited" =>
                      procs[i].exitcode = Some(ExitRaised)
        /\ Created => tmp_dir = Some({})
        /\ out_dir = {}

\* C10 witness: every worker of such a run has raised
C10_Witness ==
    /\ masterkey # None
    /\ data_truth # None
    /\ pc = "done"
    /\ Len(procs) >= 2
    /\ \A i \in DOMAIN procs : procs[i].exitcode = Some(ExitRaised)

\* -------------------------------------------------- the partial files of a worker
\* the chunk of worker i has an event whose truth bit is missing from the
\* truth source or is neither 0 nor 1
BadTruth(i) ==
    /\ HasTruth
    /\ ~RaisesConfigError
    /\ \E g \in ChunkRange(procs[i]) :
           \/ Label(g) = None
           \/ Label(g)[1] \notin {0, 1}

\* the partial files in the temporary directory that carry worker i's index
FilesOf(i) == {f \in tmp_dir[1] : f.name.tail = NameTail(i)}

\* C11 (as claimed): a worker whose truth source is shorter than its slice or
\* holds a value outside {0,1} ends with an error and leaves no partial file,
\* background or signal.
C11_BadTruthRejected ==
    \A i \in DOMAIN procs :
        (BadTruth(i) /\ procs[i].status = "exited") =>
            /\ procs[i].exitcode = Some(ExitRaised)
            /\ FilesOf(i) = {}

\* C12 (as claimed): without a truth source every worker ends successfully
\* and leaves, for each requested output kind, one background file with
\* everything it accumulated and no signal file.
C12_NoTruthSingleBackground ==
    (masterkey = None /\ data_truth = None) =>
        \A i \in DOMAIN procs :
            procs[i].status = "exited" =>
                /\ procs[i].exitcode = Some(0)
                /\ FilesOf(i) =
                       {[name |-> PartialName(feature, "bkg", procs[i].pno),
                         rows |-> ChunkEvents(i), keys |-> 1] :
                        feature \in {x \in {"scalars", "images"} :
                                        \/ x = "scalars" /\ scalars
                                        \/ x = "images" /\ images}}

\* C13 (as claimed): a worker persists only non-empty partitions, so that no
\* scalar partial file without rows exists in the temporary directory.
C13_OnlyNonEmptyPartitions ==
    Created =>
        \A f \in tmp_dir[1] : f.name.feature = "scalars" => f.rows # <<>>

\* C14: with a masterkey the worker of chunk [start, stop) takes exactly the
\* entries start..stop-1 of the full-dataset key, in order, and the row of
\* the event with global index g is filed by entry g of the key.
C14_MasterkeyGlobalSlice ==
    (masterkey # None /\ data_truth = None) =>
        \A i \in DOMAIN procs :
            /\ procs[i].wpc \notin {"read", "gone"} =>
                   /\ procs[i].truth_bit # None
                   /\ LET tb == procs[i].truth_bit[1]
                      IN /\ Len(tb) <= procs[i].stop - procs[i].start
                         /\ \A x \in DOMAIN tb :
                                /\ Label(procs[i].start + x - 1) # None
                                /\ tb[x] = masterkey[1][procs[i].start + x]
                         /\ Len(masterkey[1]) >= procs[i].stop =>
                                Len(tb) = procs[i].stop - procs[i].start
            /\ \A f \in FilesOf(i) :
                   f.name.feature = "scalars" =>
                       f.rows = RowsLeft(i, f.name.kind)

\* C14 witness: a worker whose chunk does not start at event 0 filed a row
\* under a masterkey whose entries at the chunk-local and the global index
\* differ
C14_Witness ==
    /\ masterkey # None
    /\ data_truth = None
    /\ \E i \in DOMAIN procs :
           /\ procs[i].start > 0
           /\ \E f \in FilesOf(i) :
                  /\ f.name.feature = "scalars"
                  /\ \E x \in DOMAIN f.rows :
                         masterkey[1][f.rows[x] + 1]
                             # masterkey[1][f.rows[x] - procs[i].start + 1]

\* ======================================================= one event of the loop
\* Numbers.  Physical quantities are integers in a fixed unit; an angular
\* distance is counted in units of 1e-8.  A quotient x/d is kept as the pair
\* [num, den]; 0/0 is numpy's nan.
Ratio(x, d) == [num |-> x, den |-> d]
Float(x) == Ratio(x, 1)
Inf == "inf"

RECURSIVE SumSeq(_)
SumSeq(s) == IF s = <<>> THEN 0 ELSE Head(s) + SumSeq(Tail(s))

\* x ** 0.5, rounded down to the unit
Pow05(x) == CHOOSE r \in 0..x : r * r <= x /\ (r + 1) * (r + 1) > x

\* a constituent of a jet: its energy and transverse momentum, the distance
\* delta_r(jet, c) to the jet axis, and the pixel indices that transform()
\* or average_centroid() computes for it
Constituent(e, pt, dr, rap, phi) ==
    [e |-> e, pt |-> pt, dr |-> dr, rap |-> rap, phi |-> phi]

\* a pyjet PseudoJet: its kinematic attributes, what the kt reclustering of
\* its constituents yields (subjet counts, the N-subjettiness sums for
\* N = 1, 2, 3) and its constituents
PseudoJet(pt, eta, phi, mass, e, px, py, pz, n_incl, n_excl, subj, cnsts) ==
    [pt |-> pt, eta |-> eta, phi |-> phi, mass |-> mass, e |-> e,
     px |-> px, py |-> py, pz |-> pz, n_incl |-> n_incl, n_excl |-> n_excl,
     subjettiness |-> subj, cnsts |-> cnsts]

\* two constituents, one on the axis and one at the distance 0.01, the
\* boundary between the first two energy rings
JetA ==
    PseudoJet(5, 0, 1, 12, 13, 4, 3, 0, 2, 2, <<3, 1, 0>>,
              <<Constituent(8, 3, 0, 0, 0),
                Constituent(5, 2, 1000000, 1, 0)>>)

\* a single massless constituent, placed outside the image
JetB ==
    PseudoJet(4, 1, 0, 0, 5, 4, 0, 3, 1, 1, <<0, 0, 0>>,
              <<Constituent(5, 4, 0, 0 - 1, 0)>>)

\* three constituents, two of them in the same pixel; one lies beyond the
\* outermost ring boundary
JetC ==
    PseudoJet(3, 0 - 1, 2, 4, 5, 0, 3, 0, 1, 3, <<4, 2, 1>>,
              <<Constituent(2, 1, 50000000, 0, 0),
                Constituent(2, 1, 1500000, 0, 0),
                Constituent(1, 1, 100000001, 0, 1)>>)

\* a single constituent at the distance 1, the outermost ring boundary
JetD ==
    PseudoJet(2, 1, 1, 0, 2, 2, 0, 0, 1, 1, <<2, 0, 0>>,
              <<Constituent(2, 2, 100000000, 0, 0)>>)

AllJets == <<JetA, JetB, JetC, JetD>>

\* the jet sequences a clustering can return: distinct jets by decreasing pt
RECURSIVE Subsequences(_, _)
Subsequences(s, n) ==
    IF s = <<>> \/ n = 0 THEN {<<>>}
    ELSE {<<Head(s)>> \o t : t \in Subsequences(Tail(s), n - 1)}
         \cup Subsequences(Tail(s), n)

\* the dispatch engine is not involved in the pass over one event
EngineIdle ==
    /\ n_events = 0
    /\ n_workers = n_max
    /\ chunk_size = 0
    /\ data_truth = None
    /\ masterkey = None
    /\ process_counter = 1
    /\ pc = "event"
    /\ n_chunks = 0
    /\ procs = <<>>
    /\ process_queue = <<>>
    /\ finished = <<>>
    /\ main_bar = 0
    /\ tmp_dir = None
    /\ signal_files = <<>>
    /\ background_files = <<>>
    /\ out_dir = {}

\* clustering.py:172-173: an event was clustered and its jets above ptmin
\* are at hand; the worker's kwargs and image configuration are fixed
EventInit ==
    /\ EngineIdle
    /\ \E f \in {<<TRUE, FALSE>>, <<FALSE, TRUE>>, <<TRUE, TRUE>>} :
           scalars = f[1] /\ images = f[2]
    /\ njets \in 0..MaxNJets
    /\ inclusive_jets \in Subsequences(AllJets, MaxFound)
    /\ \E npix \in 1..MaxPix, norm \in BOOLEAN, stitch_jets \in BOOLEAN :
           img_def = [npix |-> npix, norm |-> norm,
                      stitch_jets |-> stitch_jets]
    /\ epc = "pad"
    /\ jets = <<>>
    /\ calls = {}
    /\ feature_dict = None
    /\ arr = <<>>
    /\ img = None
    /\ kwargs \in [R : {10}, R2 : {2, 10}]
    /\ reclustered = {}
    /\ event = <<>>
    /\ pseudojets_input = None

\* ------------------------------------------------------------------ pad_list
\* mutant: the jets found are not cut to the number of slots
Prefix_All(l, n) == l

\* l[:n]
Prefix(l, n) == Slice(l, 0, n)

\* clustering.py:116-128
RECURSIVE pad_list(_, _)
pad_list(l, size) ==
    IF Len(l) < size THEN pad_list(Append(l, None), size) ELSE l

\* clustering.py:173-175
EventPad ==
    /\ epc = "pad"
    /\ jets' = pad_list(Prefix([x \in DOMAIN inclusive_jets |->
                                   Some(inclusive_jets[x])], njets), njets)
    /\ epc' = IF scalars THEN "scalars" ELSE "images"
    /\ UNCHANGED <<njets, inclusive_jets, img_def, calls, feature_dict,
                   arr, img, kwargs, reclustered, cluster_vars>>
    /\ UNCHANGED <<inputs, chunk_size, process_counter, pc, n_chunks, procs,
                   process_queue, finished, main_bar, tmp_dir, signal_files,
                   background_files, out_dir>>

\* ------------------------------------------------------------ feature row
\* clustering.py:18
FEATURES_PYJET == <<"pt", "eta", "phi", "mass", "e">>

\* substructure/__init__.py:14-16
substructure_all ==
    <<"nisj", "nesj", "tau1", "tau2", "tau3", "tau32", "tau21">>
    \o <<"eRing0", "eRing1", "eRing2", "eRing3", "eRing4",
         "eRing5", "eRing6", "eRing7", "eRing8", "eRing9">>

\* eventlevel/__init__.py:14
eventlevel_all == <<"nj">>

\* mutant: the slot number in the key is the index itself
SlotKey_ZeroBased(feature, idx) == feature \o "_" \o ToString(idx)

\* f"{feature}_{idx+1}"
SlotKey(feature, idx) == feature \o "_" \o ToString(idx + 1)

\* the names of a list
Names(names) == {names[x] : x \in DOMAIN names}

\* {f"{feature}_{idx+1}": value[feature] for feature in names}
SlotDict(names, idx, value) ==
    [key \in {SlotKey(feature, idx) : feature \in Names(names)} |->
        value[CHOOSE feature \in Names(names) :
                  SlotKey(feature, idx) = key]]

\* clustering.py:50-69; a slot of the jet list is <<>> or <<jet>>
pyjet_features(jet, idx) ==
    IF jet # None
    THEN SlotDict(FEATURES_PYJET, idx,
                  [feature \in Names(FEATURES_PYJET) |-> jet[1][feature]])
    ELSE SlotDict(FEATURES_PYJET, idx,
                  [feature \in Names(FEATURES_PYJET) |-> 0])

\* substructure/rings.py:8-12, in units of 1e-8
DEFAULT_RINGS ==
    <<<<0, 1000000>>, <<1000000, 1668101>>, <<1668101, 2782559>>,
      <<2782559, 4641589>>, <<4641589, 7742637>>, <<7742637, 12915497>>,
      <<12915497, 21544347>>, <<21544347, 35938137>>,
      <<35938137, 59948425>>, <<59948425, 100000000>>>>

\* substructure/helpers.py:25
InRing(dr, dR_min, dR_max) == dr >= dR_min /\ dr <= dR_max

\* substructure/helpers.py:20-27
energy_ring(jet, dR_min, dR_max) ==
    LET inside == SelectSeq(jet.cnsts,
                            LAMBDA c : InRing(c.dr, dR_min, dR_max))
    IN Ratio(SumSeq([x \in DOMAIN inside |-> inside[x].e]), jet.e)

\* substructure/base.py:11-13
nisj(jet) == jet.n_incl

\* substructure/base.py:16-18
nesj(jet) == jet.n_excl

\* substructure/helpers.py:11-17; the sum of c.pt * min(dRs) over the
\* constituents is what the reclustering into i candidates gives
subjettiness(jet, i) ==
    Ratio(jet.subjettiness[i],
          SumSeq([x \in DOMAIN jet.cnsts |-> jet.cnsts[x].pt]))

\* substructure/base.py:21-29
tau(jet, i) ==
    IF Len(jet.cnsts) >= i THEN subjettiness(jet, i) ELSE Float(0)

\* t3/t2 if t2 > 0 else np.inf (substructure/base.py:44-53)
Quotient(a, b) ==
    IF b.num > 0 THEN Ratio(a.num * b.den, a.den * b.num) ELSE Inf

\* getattr(substructure, feature)(jet, **kwargs)
Substructure(feature, jet) ==
    CASE feature = "nisj" -> nisj(jet)
      [] feature = "nesj" -> nesj(jet)
      [] feature = "tau1" -> tau(jet, 1)
      [] feature = "tau2" -> tau(jet, 2)
      [] feature = "tau3" -> tau(jet, 3)
      [] feature = "tau32" -> Quotient(tau(jet, 3), tau(jet, 2))
      [] feature = "tau21" -> Quotient(tau(jet, 2), tau(jet, 1))
      [] OTHER ->
           LET no == CHOOSE n \in 0..9 : feature = "eRing" \o ToString(n)
           IN energy_ring(jet, DEFAULT_RINGS[no + 1][1],
                          DEFAULT_RINGS[no + 1][2])

\* clustering.py:72-93
substructure_features(jet, idx) ==
    IF jet # None
    THEN SlotDict(substructure_all, idx,
                  [feature \in Names(substructure_all) |->
                      Substructure(feature, jet[1])])
    ELSE SlotDict(substructure_all, idx,
                  [feature \in Names(substructure_all) |-> 0])

\* substructure/base.py:11-29: the radius each substructure function hands
\* to cluster_lru; tau reclusters only a jet of at least i constituents
cluster_lru_R(feature, jet) ==
    LET tau_R(i) == IF Len(jet.cnsts) >= i THEN {kwargs.R} ELSE {}
    IN CASE feature = "nisj" -> {kwargs.R2}
         [] feature = "nesj" -> {kwargs.R2}
         [] feature = "tau1" -> tau_R(1)
         [] feature = "tau2" -> tau_R(2)
         [] feature = "tau3" -> tau_R(3)
         [] feature = "tau32" -> tau_R(3) \cup tau_R(2)
         [] feature = "tau21" -> tau_R(2) \cup tau_R(1)
         [] OTHER -> {}

\* the reclusterings run for the jet of slot idx
Reclusterings(jet, idx) ==
    IF jet # None
    THEN UNION {{[feature |-> feature, slot |-> idx, R |-> R] :
                    R \in cluster_lru_R(feature, jet[1])} :
                feature \in Names(substructure_all)}
    ELSE {}

\* the feature functions the two calls evaluate on the jet of slot idx
FeatureCalls(jet, idx) ==
    IF jet # None
    THEN {<<feature, idx>> : feature \in Names(FEATURES_PYJET)}
         \cup {<<feature, idx>> : feature \in Names(substructure_all)}
    ELSE {}

\* ------------------------------------------------------- combined masses
\* itertools.combinations(s, r)
RECURSIVE combinations(_, _)
combinations(s, r) ==
    IF r = 0 THEN <<<<>>>>
    ELSE IF Len(s) < r THEN <<>>
    ELSE LET with == combinations(Tail(s), r - 1)
         IN [x \in DOMAIN with |-> <<Head(s)>> \o with[x]]
            \o combinations(Tail(s), r)

\* chain.from_iterable(combinations(s, r) for r in range(first, len(s)+1))
RECURSIVE Chain(_, _)
Chain(s, first) ==
    IF first > Len(s) THEN <<>>
    ELSE combinations(s, first) \o Chain(s, first + 1)

\* mutant: the subsets of one element are included
powerset_FromOne(iterable) == Chain(iterable, 1)

\* combinedmass.py:10-24
powerset(iterable) == Chain(iterable, 2)

\* reduce(str.__add__, name)
RECURSIVE StrJoin(_)
StrJoin(name) == IF name = <<>> THEN "" ELSE Head(name) \o StrJoin(Tail(name))

\* combinedmass.py:45-67: the function is kept as its indices and its name
mass_clojure(idx) ==
    [idx |-> idx,
     name |-> StrJoin(<<"m">> \o [x \in DOMAIN idx |->
                                     "j" \o ToString(idx[x] + 1)])]

\* combinedmass.py:27-43
make_mass_fns(n) ==
    LET idx == [x \in 1..n |-> x - 1]
        combs == powerset(idx)
    IN [x \in DOMAIN combs |-> mass_clojure(combs[x])]

\* eventlevel/helpers.py:4-14
sum_attributes(objs, attr) == SumSeq([x \in DOMAIN objs |-> objs[x][attr]])

\* mutant: a single jet counts as no jet
NoJets_FewerThanTwo(js) == Len(js) < 2

\* eventlevel/helpers.py:28
NoJets(js) == Len(js) = 0

\* eventlevel/helpers.py:17-34; js is a list of slots, and every jet is a
\* true value, so that the filter removes exactly the None entries
combined_mass(js) ==
    LET present == SelectSeq(js, LAMBDA j : j # None)
        objs == [x \in DOMAIN present |-> present[x][1]]
    IN IF NoJets(objs) THEN 0
       ELSE LET E == sum_attributes(objs, "e")
                px == sum_attributes(objs, "px")
                py == sum_attributes(objs, "py")
                pz == sum_attributes(objs, "pz")
            IN Pow05(E * E - px * px - py * py - pz * pz)

\* f(jets) of mass_clojure: combined_mass(jets[np.array(idx)])
MassOf(fn, js) == combined_mass([x \in DOMAIN fn.idx |-> js[fn.idx[x] + 1]])

\* eventlevel/__init__.py:9-11
nj(js) == Len(js)

\* clustering.py:96-113
event_features(js) ==
    LET fns == make_mass_fns(Len(js))
        masses == [name \in {fns[x].name : x \in DOMAIN fns} |->
                      MassOf(fns[CHOOSE x \in DOMAIN fns :
                                     fns[x].name = name], js)]
        misc == [feature \in Names(eventlevel_all) |-> nj(js)]
    IN masses @@ misc

\* dict(ChainMap(*features)): a key takes its value from the first mapping
\* that has it
RECURSIVE ChainMap(_)
ChainMap(features) ==
    IF features = <<>> THEN <<>>
    ELSE Head(features) @@ ChainMap(Tail(features))

\* clustering.py:176-182
EventScalars ==
    /\ epc = "scalars"
    /\ LET features ==
               [x \in DOMAIN jets |-> pyjet_features(jets[x], x - 1)]
               \o [x \in DOMAIN jets |->
                      substructure_features(jets[x], x - 1)]
               \o <<event_features(jets)>>
       IN feature_dict' = Some(ChainMap(features))
    /\ calls' = UNION {FeatureCalls(jets[x], x - 1) : x \in DOMAIN jets}
    /\ reclustered' = UNION {Reclusterings(jets[x], x - 1) :
                                 x \in DOMAIN jets}
    /\ epc' = IF images THEN "images" ELSE "done"
    /\ UNCHANGED <<njets, inclusive_jets, img_def, jets, arr, img, kwargs,
                   cluster_vars>>
    /\ UNCHANGED <<inputs, chunk_size, process_counter, pc, n_chunks, procs,
                   process_queue, finished, main_bar, tmp_dir, signal_files,
                   background_files, out_dir>>

\* ------------------------------------------------------------------ images
\* the outcome of a call: the value returned or the exception raised
Returns(value) == [error |-> None, value |-> value]
Raises(error) == [error |-> Some(error), value |-> <<>>]

\* the pixels of a grid, as <<phi index, rapidity index>>
Pixels(npix) == (0..(npix - 1)) \X (0..(npix - 1))

\* image/core.py:94-101: the constituents whose indices are in the image
InImage(c, npix) ==
    c.rap >= 0 /\ c.phi >= 0 /\ c.rap < npix /\ c.phi < npix

\* image/core.py:81-109
make_image(jet, npix) ==
    LET masked == SelectSeq(jet, LAMBDA c : InImage(c, npix))
    IN [px \in Pixels(npix) |->
           LET here == SelectSeq(masked,
                           LAMBDA c : c.phi = px[1] /\ c.rap = px[2])
           IN Float(SumSeq([x \in DOMAIN here |-> here[x].pt]))]

\* np.sum(jet_image[..., 0])
GridSum(jet_image, npix) ==
    SumSeq([a \in 1..npix |->
               SumSeq([b \in 1..npix |-> jet_image[<<a - 1, b - 1>>].num])])

\* jet_image[..., 0] /= normfactor
Divide(jet_image, normfactor) ==
    [px \in DOMAIN jet_image |->
        Ratio(jet_image[px].num, jet_image[px].den * normfactor)]

\* mutant: the total is never found to be zero
NormZero_Never(normfactor) == FALSE

\* image/core.py:256
NormZero(normfactor) == normfactor = 0

\* image/core.py:226-227 and 251-261: pixelate on a constituents array whose
\* pixel indices are the ones the centring of lines 229-248 gives
pixelate(jet, cfg) ==
    LET kept == SelectSeq(jet, LAMBDA c : c.pt > 0)
        jet_image == make_image(kept, cfg.npix)
        normfactor == GridSum(jet_image, cfg.npix)
    IN IF cfg.norm
       THEN (IF NormZero(normfactor) THEN Raises("FloatingPointError")
             ELSE Returns(Divide(jet_image, normfactor)))
       ELSE Returns(jet_image)

\* image/core.py:293-295
jet_to_array(jet) == jet.cnsts

\* np.concatenate of the arrays of a non-empty list
RECURSIVE Concatenate(_)
Concatenate(arrays) ==
    IF arrays = <<>> THEN <<>>
    ELSE Head(arrays) \o Concatenate(Tail(arrays))

\* a list comprehension ends with the first call that raises
RECURSIVE UntilRaise(_)
UntilRaise(results) ==
    IF results = <<>> THEN <<>>
    ELSE IF Head(results).error # None THEN <<Head(results)>>
    ELSE <<Head(results)>> \o UntilRaise(Tail(results))

Present(js) == SelectSeq(js, LAMBDA x : x # None)

\* image/core.py:277-278 and 280-282: the calls of pixelate
EventPixelate ==
    /\ epc = "images"
    /\ LET present == Present(jets)
       IN arr' =
           IF img_def.stitch_jets
           THEN (IF present = <<>> THEN <<>>
                 ELSE <<pixelate(Concatenate(
                            [x \in DOMAIN present |->
                                jet_to_array(present[x][1])]), img_def)>>)
           ELSE UntilRaise([x \in DOMAIN present |->
                               pixelate(jet_to_array(present[x][1]),
                                        img_def)])
    /\ epc' = "stack"
    /\ UNCHANGED <<njets, inclusive_jets, img_def, jets, calls,
                   feature_dict, img, kwargs, reclustered, cluster_vars>>
    /\ UNCHANGED <<inputs, chunk_size, process_counter, pc, n_chunks, procs,
                   process_queue, finished, main_bar, tmp_dir, signal_files,
                   background_files, out_dir>>

\* np.zeros(shape=(npix, npix, missing_jets)), channel by channel
Padding(npix, missing_jets) ==
    [x \in 1..missing_jets |-> [px \in Pixels(npix) |-> Float(0)]]

\* an array of the given channels
Image(npix, channels) ==
    [shape |-> <<npix, npix, Len(channels)>>, channels |-> channels]

\* image/core.py:263-291 given the results of pixelate.  An exception of
\* pixelate leaves image_from_jets; np.concatenate raises ValueError on an
\* empty list; np.squeeze(..., -1) raises ValueError on the array of an
\* empty list, whose shape is (0,).
image_from_jets(js, results, cfg) ==
    IF \E x \in DOMAIN results : results[x].error # None
    THEN Raises((CHOOSE r \in {results[x] : x \in DOMAIN results} :
                     r.error # None).error[1])
    ELSE IF results = <<>> THEN Raises("ValueError")
    ELSE IF cfg.stitch_jets THEN Returns(Image(cfg.npix, <<results[1].value>>))
    ELSE LET channels == [x \in DOMAIN results |-> results[x].value]
             missing_jets == Len(js) - Len(channels)
         IN Returns(Image(cfg.npix,
                          IF missing_jets > 0
                          THEN channels \o Padding(cfg.npix, missing_jets)
                          ELSE channels))

\* image/core.py:283-291 and clustering.py:184
EventStack ==
    /\ epc = "stack"
    /\ img' = Some(image_from_jets(jets, arr, img_def))
    /\ epc' = "done"
    /\ UNCHANGED <<njets, inclusive_jets, img_def, jets, calls,
                   feature_dict, arr, kwargs, reclustered, cluster_vars>>
    /\ UNCHANGED <<inputs, chunk_size, process_counter, pc, n_chunks, procs,
                   process_queue, finished, main_bar, tmp_dir, signal_files,
                   background_files, out_dir>>

EventNext ==
    \/ EventPad
    \/ EventScalars
    \/ EventPixelate
    \/ EventStack

EventSpec == EventInit /\ [][EventNext]_vars

\* ------------------------------------------------------------ cluster_event
\* the particles of the input table: pT > 0, eta and phi of either sign or 0
Particles == [pT : 1..2, eta : {0 - 1, 0, 1}, phi : {0 - 1, 0, 1}]

\* the row of an event: pT, eta, phi of its particles, then zeros up to the
\* row length of the table
Row(ps) ==
    [x \in 1..(3 * MaxParticles) |->
        LET no == (x + 2) \div 3
        IN IF no > Len(ps) THEN 0
           ELSE IF x % 3 = 1 THEN ps[no].pT
           ELSE IF x % 3 = 2 THEN ps[no].eta
           ELSE ps[no].phi]

Rows == {Row(ps) : ps \in UNION {[1..p -> Particles] : p \in 0..MaxParticles}}

\* event[event.nonzero()]: the entries of the row that are not 0
nonzero(row) == SelectSeq(row, LAMBDA v : v # 0)

\* np.count_nonzero(event)
count_nonzero(row) == Len(nonzero(row))

\* flat.reshape(-1, 3): ValueError unless the size is a multiple of 3
reshape(flat) ==
    IF Len(flat) % 3 # 0 THEN Raises("ValueError")
    ELSE Returns([r \in 1..(Len(flat) \div 3) |->
                     <<flat[3 * r - 2], flat[3 * r - 1], flat[3 * r]>>])

\* clustering.py:40-45: the structured array handed to cluster(); its mass
\* field keeps the 0 of np.zeros
cluster_event(row) ==
    LET zeros == [x \in 1..(count_nonzero(row) \div 3) |->
                     [pT |-> 0, eta |-> 0, phi |-> 0, mass |-> 0]]
        tmp == reshape(nonzero(row))
    IN IF tmp.error # None THEN tmp
       ELSE Returns([x \in DOMAIN zeros |->
                        [zeros[x] EXCEPT !.pT = tmp.value[x][1],
                                         !.eta = tmp.value[x][2],
                                         !.phi = tmp.value[x][3]]])

\* clustering.py:172-173: a row of the chunk is about to be clustered
ClusterInit ==
    /\ EngineIdle
    /\ scalars = TRUE
    /\ images = FALSE
    /\ njets = 0
    /\ inclusive_jets = <<>>
    /\ img_def = [npix |-> 1, norm |-> FALSE, stitch_jets |-> FALSE]
    /\ epc = "cluster"
    /\ jets = <<>>
    /\ calls = {}
    /\ feature_dict = None
    /\ arr = <<>>
    /\ img = None
    /\ kwargs = [R |-> 10, R2 |-> 2]
    /\ reclustered = {}
    /\ event \in Rows
    /\ pseudojets_input = None

\* clustering.py:40-47
ClusterEvent ==
    /\ epc = "cluster"
    /\ pseudojets_input' = Some(cluster_event(event))
    /\ epc' = "clustered"
    /\ UNCHANGED <<njets, inclusive_jets, img_def, jets, calls,
                   feature_dict, arr, img, kwargs, reclustered, event>>
    /\ UNCHANGED <<inputs, chunk_size, process_counter, pc, n_chunks, procs,
                   process_queue, finished, main_bar, tmp_dir, signal_files,
                   background_files, out_dir>>

ClusterNext == ClusterEvent

ClusterSpec == ClusterInit /\ [][ClusterNext]_vars

\* ------------------------------------------------ properties of one event
\* 2^n
RECURSIVE Pow2(_)
Pow2(n) == IF n = 0 THEN 1 ELSE 2 * Pow2(n - 1)

\* "j<k>" for every slot number k of S from k on, in increasing order
RECURSIVE SlotNames(_, _, _)
SlotNames(S, k, n) ==
    IF k > n THEN ""
    ELSE (IF k \in S THEN "j" \o ToString(k) ELSE "")
         \o SlotNames(S, k + 1, n)

\* the name of the mass function of the set S of slot numbers 1..n
MassName(S, n) == "m" \o SlotNames(S, 1, n)

\* the sets of at least two slot numbers
SlotSets(n) == {S \in SUBSET (1..n) : Cardinality(S) >= 2}

RowComputed == feature_dict # None

\* C15: make_mass_fns(n) returns exactly 2^n - n - 1 functions, one per set
\* of at least two slots, named "m" followed by "j<k>" for the slot numbers
\* k of the set in increasing order, and the names are pairwise distinct, so
\* that the feature row has one mass entry per set.
C15_MassFunctionCount ==
    RowComputed =>
        LET n == njets
            fns == make_mass_fns(n)
            names == {fns[x].name : x \in DOMAIN fns}
        IN /\ Len(fns) = Pow2(n) - n - 1
           /\ \A x, y \in DOMAIN fns : x # y => fns[x].name # fns[y].name
           /\ names = {MassName(S, n) : S \in SlotSets(n)}
           /\ \A x \in DOMAIN fns :
                  /\ Len(fns[x].idx) >= 2
                  /\ \A a, b \in DOMAIN fns[x].idx :
                         a < b => fns[x].idx[a] < fns[x].idx[b]
                  /\ fns[x].name =
                         MassName({fns[x].idx[a] + 1 :
                                      a \in DOMAIN fns[x].idx}, n)
           /\ Cardinality(SlotSets(n)) = Pow2(n) - n - 1
           /\ names \subseteq DOMAIN feature_dict[1]
           /\ Cardinality(DOMAIN feature_dict[1])
                  = 22 * n + 1 + Pow2(n) - n - 1

\* C15 witness: the row of an event with three slots has its four masses
C15_Witness ==
    /\ RowComputed
    /\ njets = 3
    /\ {"mj1j2", "mj1j3", "mj2j3", "mj1j2j3"} \subseteq DOMAIN feature_dict[1]

\* C16: for every slot that holds the absent-jet sentinel the five kinematic
\* and the seventeen substructure features of the slot are 0 in the feature
\* row, and no feature function was evaluated on the slot.
C16_AbsentSlotsZero ==
    RowComputed =>
        \A k \in DOMAIN jets :
            jets[k] = None =>
                /\ \A feature \in
                       {"pt", "eta", "phi", "mass", "e", "nisj", "nesj",
                        "tau1", "tau2", "tau3", "tau32", "tau21",
                        "eRing0", "eRing1", "eRing2", "eRing3", "eRing4",
                        "eRing5", "eRing6", "eRing7", "eRing8", "eRing9"} :
                       LET key == feature \o "_" \o ToString(k)
                       IN /\ key \in DOMAIN feature_dict[1]
                          /\ feature_dict[1][key] = 0
                /\ \A c \in calls : c[2] # k - 1

\* C16 witness: a row was computed for a list with a jet and two sentinels
C16_Witness ==
    /\ RowComputed
    /\ njets = 3
    /\ jets[1] # None
    /\ jets[2] = None
    /\ jets[3] = None
    /\ calls # {}

RECURSIVE SumOver(_, _, _)
SumOver(S, js, attr) ==
    IF S = {} THEN 0
    ELSE LET k == CHOOSE x \in S : TRUE
         IN js[k][1][attr] + SumOver(S \ {k}, js, attr)

\* C17: the combined mass of a set of at least two slots is computed from
\* the summed four-momentum of the present jets of the set only; with one
\* present jet it is that jet's own invariant mass and with none it is 0.
C17_CombinedMass ==
    RowComputed =>
        \A S \in SlotSets(njets) :
            LET P == {k \in S : jets[k] # None}
                E == SumOver(P, jets, "e")
                px == SumOver(P, jets, "px")
                py == SumOver(P, jets, "py")
                pz == SumOver(P, jets, "pz")
                m == feature_dict[1][MassName(S, njets)]
            IN /\ P = {} => m = 0
               /\ P # {} => m = Pow05(E * E - px * px - py * py - pz * pz)
               /\ \A k \in P :
                      P = {k} =>
                          LET j == jets[k][1]
                          IN /\ m = Pow05(j.e * j.e - j.px * j.px
                                          - j.py * j.py - j.pz * j.pz)
                             /\ m = j.mass

\* C17 witness: of three slots only the first holds a jet, a massive one, so
\* that there are sets with one present jet and a set with none
C17_Witness ==
    /\ RowComputed
    /\ njets = 3
    /\ jets = <<Some(JetA), None, None>>
    /\ feature_dict[1]["mj1j2"] = 12
    /\ feature_dict[1]["mj2j3"] = 0

\* C18 (as claimed): in per-jet-channel mode image_from_jets returns an
\* array of shape (npix, npix, njets) for every list of njets >= 1 slots and
\* every number p of present jets, 0 <= p <= njets: the first p channels are
\* the grids of the present jets in slot order, the other channels are zero.
C18_ImageShape ==
    (/\ img # None
     /\ njets >= 1
     /\ ~img_def.stitch_jets
     /\ \A x \in DOMAIN arr : arr[x].error = None) =>
        /\ img[1].error = None
        /\ img[1].value.shape = <<img_def.npix, img_def.npix, njets>>
        /\ LET p == Len(Present(jets))
               channels == img[1].value.channels
           IN /\ Len(channels) = njets
              /\ \A x \in 1..p : channels[x] = arr[x].value
              /\ \A x \in (p + 1)..njets :
                     \A px \in Pixels(img_def.npix) : channels[x][px].num = 0

\* C19 (as claimed): for a present jet whose constituents' energies sum to
\* the jet's energy the ten energy-ring fractions sum to at most 1, wherever
\* the constituents lie, ring boundaries included, and to 1 only when every
\* constituent is within the outermost boundary.
C19_RingsSumAtMostOne ==
    RowComputed =>
        \A k \in DOMAIN jets :
            (/\ jets[k] # None
             /\ SumSeq([x \in DOMAIN jets[k][1].cnsts |->
                           jets[k][1].cnsts[x].e]) = jets[k][1].e) =>
                LET ring(no) == feature_dict[1]["eRing" \o ToString(no)
                                                \o "_" \o ToString(k)]
                    total == SumSeq([x \in 1..10 |-> ring(x - 1).num])
                IN /\ \A no \in 0..9 : ring(no).den = jets[k][1].e
                   /\ total <= jets[k][1].e
                   /\ total = jets[k][1].e =>
                          \A x \in DOMAIN jets[k][1].cnsts :
                              jets[k][1].cnsts[x].dr <= 100000000

\* the constituents array given to the x-th call of pixelate
Pixelated(x) ==
    IF img_def.stitch_jets
    THEN Concatenate([y \in DOMAIN Present(jets) |->
                         Present(jets)[y][1].cnsts])
    ELSE Present(jets)[x][1].cnsts

\* the transverse momentum of the array that falls on the pixels of S
PtOn(cnsts, S) ==
    LET on == SelectSeq(cnsts, LAMBDA c : c.pt > 0 /\ <<c.phi, c.rap>> \in S)
    IN SumSeq([x \in DOMAIN on |-> on[x].pt])

\* C20: with L1 normalization pixelate raises a numeric error whenever the
\* accumulated grid sums to 0 and otherwise returns the grid divided by its
\* total, which sums to 1; it returns no un-normalized or NaN grid.
C20_NormalizedOrError ==
    (epc \in {"stack", "done"} /\ img_def.norm) =>
        \A x \in DOMAIN arr :
            LET all == Pixels(img_def.npix)
                total == PtOn(Pixelated(x), all)
            IN /\ total = 0 <=> arr[x].error = Some("FloatingPointError")
               /\ total # 0 =>
                      /\ arr[x].error = None
                      /\ \A px \in all :
                             /\ arr[x].value[px].den = total
                             /\ arr[x].value[px].num
                                    = PtOn(Pixelated(x), {px})
                      /\ GridSum(arr[x].value, img_def.npix) = total

\* C20 witness: with normalization the first jet gave a grid with two
\* non-zero pixels and the second jet, wholly outside the image, an error
C20_Witness ==
    /\ epc = "done"
    /\ img_def.norm
    /\ Len(arr) = 2
    /\ arr[1].error = None
    /\ Cardinality({px \in Pixels(img_def.npix) :
                       arr[1].value[px].num > 0}) = 2
    /\ arr[2].error = Some("FloatingPointError")

\* ------------------------------------------------- properties of the tasks
StatusOf(ps, i) == ps[i].status

\* C21: every task follows queued -> running -> exited and never moves back:
\* it is started at most once, an exited task is never started again, and
\* when run_procs returns every task was started and has exited.
C21_TaskLifecycle ==
    /\ [][\A i \in 1..MaxProcs :
              (i \in DOMAIN procs /\ i \in DOMAIN procs') =>
                  \/ StatusOf(procs', i) = StatusOf(procs, i)
                  \/ /\ StatusOf(procs, i) = "queued"
                     /\ StatusOf(procs', i) = "running"
                  \/ /\ StatusOf(procs, i) = "running"
                     /\ StatusOf(procs', i) = "exited"]_vars
    /\ [](\A i \in DOMAIN procs :
              /\ StatusOf(procs, i) \in {"queued", "running", "exited"}
              /\ (pc \notin {"start", "run_procs"}) =>
                     (StatusOf(procs, i) = "queued" <=>
                          \E x \in DOMAIN process_queue :
                              process_queue[x] = i)
              /\ \A x, y \in DOMAIN process_queue :
                     x # y => process_queue[x] # process_queue[y])
    /\ [](Returned => process_queue = <<>> /\ AllExited)

\* C21 witness: run_procs returned after tasks exited with both exit codes
C21_Witness ==
    /\ pc = "merge"
    /\ Len(procs) >= 2
    /\ \E i \in DOMAIN procs : procs[i].exitcode = Some(0)
    /\ \E i \in DOMAIN procs : procs[i].exitcode = Some(ExitRaised)

\* C22: tasks are started in increasing chunk-index order: task i is never
\* started before task i-1 has been started.  (The order of the exits is
\* not constrained; the witness is a later task that exited first.)
C22_StartOrder ==
    /\ [](\A i \in DOMAIN procs :
              (i > 1 /\ StatusOf(procs, i) # "queued") =>
                  StatusOf(procs, i - 1) # "queued")
    /\ [][\A i \in 1..MaxProcs :
              StartedBy(i) =>
                  /\ \A k \in 1..(i - 1) : StatusOf(procs, k) # "queued"
                  /\ \A k \in (i + 1)..Len(procs) :
                         StatusOf(procs', k) = "queued"]_vars

\* C22 witness: the second task has exited while the first, started before
\* it, is still running
C22_Witness ==
    /\ pc \notin {"start", "error", "run_procs"}
    /\ Len(procs) >= 3
    /\ StatusOf(procs, 1) = "running"
    /\ StatusOf(procs, 2) = "exited"
    /\ StatusOf(procs, 3) = "queued"

\* C23: every progress delta reported is >= 0 and is the number of tasks
\* seen exited now minus the number seen exited at the previous reporting
\* poll; the total reported never exceeds the number of exited tasks and is
\* the number of tasks when run_procs returns.
C23_ProgressDeltas ==
    /\ [][main_bar' # main_bar =>
              /\ pc = "else"
              /\ main_bar' - main_bar >= 0
              /\ main_bar' - main_bar
                     = CountTrue(Exited(procs)) - CountTrue(finished)]_vars
    /\ [][(pc = "else" /\ pc' = "while") =>
              main_bar' - main_bar
                  = CountTrue(Exited(procs)) - CountTrue(finished)]_vars
    /\ [](/\ main_bar = CountTrue(finished)
          /\ main_bar <= CountTrue(Exited(procs)))
    /\ [](Returned => main_bar = Len(procs))

\* C23 witness: run_procs returned after a poll that reported two tasks at
\* once and polls that reported none
C23_Witness ==
    /\ pc = "while"
    /\ Len(procs) >= 3
    /\ main_bar = 2
    /\ CountTrue(Exited(procs)) = 3
    /\ process_queue = <<>>

\* C24: no two workers of a run carry the same worker index in their file
\* names, whether they run side by side or one after another, and after the
\* directory was cleared no step replaces or removes a partial file.
C24_UniqueFileNames ==
    /\ [](\A i, k \in DOMAIN procs :
              i # k => /\ procs[i].pno # procs[k].pno
                       /\ NameTail(i) # NameTail(k))
    /\ [](Created =>
              \A f \in tmp_dir[1] :
                  \E i \in DOMAIN procs :
                      /\ f.name.tail = NameTail(i)
                      /\ \A x \in DOMAIN f.rows :
                             f.rows[x] \in ChunkRange(procs[i]))
    /\ [][Created =>
              \A f \in tmp_dir[1] :
                  \E g \in tmp_dir'[1] :
                      /\ g.name = f.name
                      /\ (f.keys = 1 => g = f)]_vars

\* C24 witness: with one worker at a time, two tasks that ran one after the
\* other have both left their scalar files
C24_Witness ==
    /\ pc = "merge"
    /\ n_workers = 1
    /\ Len(procs) >= 2
    /\ \A i \in DOMAIN procs :
           \E f \in FilesOf(i) : f.name.feature = "scalars" /\ f.rows # <<>>

Failed(i) == procs[i].exitcode = Some(ExitRaised)

\* C25 (as claimed): a task that exits with a non-zero code is counted as
\* finished and not retried, the run completes, and the merged tables hold
\* exactly the rows of the partial files of the other workers: no row of the
\* chunk of a failed task is in a merged table.
C25_FailedChunkAbsent ==
    pc = "done" =>
        /\ AllExited
        /\ main_bar = Len(procs)
        /\ \A i \in DOMAIN procs :
               Failed(i) =>
                   \A kind \in {"bkg", "sig"} :
                       \A g \in ChunkRange(procs[i]) :
                           Occurrences(RowsOf(kind), g) = 0

\* C29: with chunk_size = 0 and fewer events than workers the computed chunk
\* size is 0 and the run ends in the division error before the temporary
\* directory is cleared or created and before any task is created.
C29_ZeroChunkSizeDivisionError ==
    /\ [][(pc = "start" /\ chunk_size = 0 /\ n_events < n_workers
              /\ pc' # pc) =>
              /\ pc' = "error"
              /\ chunk_size' = 0
              /\ tmp_dir' = tmp_dir
              /\ procs' = <<>>
              /\ process_counter' = process_counter]_vars
    /\ [](pc = "error" =>
              /\ chunk_size = 0
              /\ n_events < n_workers
              /\ procs = <<>>
              /\ tmp_dir \in {None, Some(StaleDir)}
              /\ out_dir = {})
    /\ [][pc = "error" => UNCHANGED vars]_vars

\* C29 witness: one event for two workers, the division error has been
\* raised and the directory of an earlier run is still in place
C29_Witness ==
    /\ pc = "error"
    /\ n_events = 1
    /\ n_workers = 2
    /\ tmp_dir = Some(StaleDir)

\* -------------------------------------------------- properties of one event
Padded == epc \notin {"idle", "pad"}
Min(a, b) == IF a < b THEN a ELSE b

\* C26: after the jet selection the list has exactly njets slots; with k
\* jets found the first min(k, njets) slots hold the leading jets by
\* decreasing pT, every other slot is the sentinel, and no sentinel precedes
\* a present jet.
C26_JetSlots ==
    Padded =>
        LET k == Len(inclusive_jets)
        IN /\ Len(jets) = njets
           /\ \A x \in 1..Min(k, njets) : jets[x] = Some(inclusive_jets[x])
           /\ \A x \in (Min(k, njets) + 1)..njets : jets[x] = None
           /\ \A x, y \in DOMAIN jets :
                  (x < y /\ jets[x] # None /\ jets[y] # None) =>
                      jets[x][1].pt >= jets[y][1].pt
           /\ \A x, y \in DOMAIN jets :
                  (x < y /\ jets[x] = None) => jets[y] = None

\* C26 witness: three slots for two jets found
C26_Witness ==
    /\ Padded
    /\ njets = 3
    /\ Len(inclusive_jets) = 2
    /\ jets = <<Some(JetA), Some(JetC), None>>

\* C27 (as claimed): nisj, nesj, tau1, tau2, tau3 and the ratios tau32 and
\* tau21 hand the secondary radius R2 to the reclustering of the jet, never
\* the primary radius R.
C27_SecondaryRadius ==
    \A c \in reclustered : c.R = kwargs.R2

\* the particles of a row that are not padding, in the order of the row
NonPadding(row) ==
    LET real == {no \in 1..(Len(row) \div 3) : row[3 * no - 2] # 0}
    IN [x \in 1..Cardinality(real) |->
           [pT |-> row[3 * x - 2], eta |-> row[3 * x - 1],
            phi |-> row[3 * x], mass |-> 0]]

\* C28 (as claimed): cluster_event hands the clusterer exactly the particles
\* of the row that are not padding, (pT, eta, phi) unchanged and in order,
\* also when a real particle has an eta or a phi of exactly 0.
C28_NonPaddingParticles ==
    epc = "clustered" =>
        pseudojets_input = Some(Returns(NonPadding(event)))

\* the run has a truth source where the images need one, and no masterkey
\* that could be short or given twice
SoundTruth == masterkey = None /\ (images => data_truth # None)

\* C30 (as claimed): clustering_LHCO called with bars = None or with an empty
\* list on a slice that is not empty processes every event, writes its
\* partial files and returns 0; only the progress reporting is skipped.
C30_NoBarsStillRuns ==
    \A i \in DOMAIN procs :
        (/\ ~Truthy(procs[i].bars)
         /\ SoundTruth
         /\ procs[i].status = "exited") =>
            /\ procs[i].exitcode = Some(0)
            /\ scalars =>
                   \E f \in FilesOf(i) :
                       /\ f.name.feature = "scalars"
                       /\ f.name.kind = "bkg"
            /\ images =>
                   \E f \in FilesOf(i) :
                       /\ f.name.feature = "images"
                       /\ f.name.kind = "bkg"

====
